---- MODULE Spec2Model ----
(***************************************************************************)
(* The rendezvous server of sync-point/src/main.rs.                        *)
(*                                                                         *)
(* Every attempt is one call of sync_parties.  An attempt is a process     *)
(* whose program counter walks through the statements of the handler.     *)
(* The registry is the HashMap inside WaitingParties, protected by the     *)
(* tokio RwLock of AppState.  A handle (Arc<Notify>) is named by the       *)
(* attempt that allocated it in WaitingParties::insert.                    *)
(*                                                                         *)
(* tokio::sync::Notify and tokio::time::timeout are modelled by what they  *)
(* do: notify_one stores a permit when nobody waits, Notified consumes a   *)
(* permit on its first poll, Timeout polls the inner future first and the  *)
(* timer second, and a dropped Notified future leaves the waiter list.     *)
(*                                                                         *)
(* The other crates are modelled next to it, each with its own next-state  *)
(* relation: DLogProof::prove / verify of dlog-proof/src/lib.rs (DlogSpec), *)
(* handle_socket of wasm-ws/ws-server/src/main.rs (SrvSpec) and ws_ping of *)
(* wasm-ws/ws-client/src/lib.rs (CliSpec).                                 *)
(***************************************************************************)
EXTENDS Integers, FiniteSets, Sequences, TLC

\* ------------------------------------------------------------------ bounds
NumAttempts == 3
NumIds == 2

Procs == 1..NumAttempts
Ids == 1..NumIds

\* ------------------------------------------------------- program constants
INBOUND_MESSAGE == "Hooray! Another party is connected!\n"
OUTBOUND_MESSAGE == "Yippee! We connected to another party!\n"
TIMEOUT_MESSAGE == "Oh no... we timed out waiting for another party\n"

OK == 200
REQUEST_TIMEOUT == 408

\* Option::None of take(), and "no value yet" of a local variable
None == 0

NoResponse == [status |-> 0, body |-> ""]

VARIABLES
    pc,         \* position of every attempt in sync_parties
    unique_id,  \* the Path parameter of every attempt (None before the call)
    registry,   \* WaitingParties.0 : identifier -> handle or None
    lock,       \* holder of AppState.waiting_parties write lock, or None
    party,      \* the local `party` of every attempt: a handle or None
    notify,     \* the Notify behind every handle
    expired,    \* the Sleep of every attempt's timeout has elapsed
    response,   \* what every attempt returned
    firedBy,    \* history: the attempts that called notify_one on a handle
    firedEarly, \* history: notify_one hit the handle before its first poll
    rank,       \* history: arrival index of the attempt on its identifier
    clean,      \* history: no timer of the identifier had elapsed on arrival
    alone,      \* history: no other arrival on the identifier at timer expiry
    firedFirst, \* history: notify_one hit the handle before its timer elapsed
    \* dlog-proof: one run of DLogProof::prove followed by DLogProof::verify
    dpc,        \* "start", "proved", "verified", or the call that panicked
    dsid, dpid, \* session and participant given to prove
    dx, dy,     \* secret scalar and public key given to prove
    proof,      \* the DLogProof returned by prove: [t, s], or None
    vsid, vpid, \* session and participant given to verify
    verdict,    \* the boolean returned by verify
    \* ws-server: one connection served by handle_socket
    spc,        \* "recv" (awaiting socket.recv), "send" (awaiting socket.send)
                \* or "returned"
    txt,        \* the text bound by the Message::Text arm
    received,   \* history: the results of socket.recv() so far
    sendCalls,  \* history: the texts passed to socket.send
    delivered,  \* history: the texts whose socket.send returned Ok
    \* ws-client: one call of ws_ping
    message,    \* the message argument of ws_ping
    ready,      \* readyState of the WebSocket
    sent,       \* the strings accepted by ws.send_with_str
    closeCalls, \* number of calls of ws.close()
    calls,      \* the invocations of resolve and reject, in order
    promise,    \* state of the Promise returned by ws_ping
    events      \* history: the events dispatched to the callbacks

syncVars == <<pc, unique_id, registry, lock, party, notify, expired, response,
              firedBy, firedEarly, rank, clean, alone, firedFirst>>

dlogVars == <<dpc, dsid, dpid, dx, dy, proof, vsid, vpid, verdict>>

srvVars == <<spc, txt, received, sendCalls, delivered>>

cliVars == <<message, ready, sent, closeCalls, calls, promise, events>>

nonSyncVars == <<dlogVars, srvVars, cliVars>>

vars == <<syncVars, dlogVars, srvVars, cliVars>>

\* ------------------------------------------------------------ WaitingParties
take_keep(wp, uid) ==
    [map |-> wp, ret |-> wp[uid]]

take(wp, uid) ==
    [map |-> [wp EXCEPT ![uid] = None], ret |-> wp[uid]]

insert(wp, uid, h) ==
    [map |-> [wp EXCEPT ![uid] = h], ret |-> h]

remove_noop(wp, uid) ==
    wp

remove_clear(wp, uid) ==
    [i \in DOMAIN wp |-> None]

remove(wp, uid) ==
    [wp EXCEPT ![uid] = None]

\* -------------------------------------------------------------------- Notify
\* state: EMPTY, WAITING (the Notified future is in the waiter list) or
\* NOTIFIED (a permit is stored); notification: the waiter was popped from
\* the list by notify_one and has not consumed the notification yet.
NotifyNew == [state |-> "EMPTY", notification |-> FALSE]

notify_one_no_permit(n) ==
    IF n.state = "WAITING"
    THEN [state |-> "EMPTY", notification |-> TRUE]
    ELSE n

notify_one(n) ==
    IF n.state = "WAITING"
    THEN [state |-> "EMPTY", notification |-> TRUE]
    ELSE [n EXCEPT !.state = "NOTIFIED"]

\* first poll of a Notified future
poll_init(n) ==
    IF n.state = "NOTIFIED"
    THEN [ready |-> TRUE, n |-> [n EXCEPT !.state = "EMPTY"]]
    ELSE [ready |-> FALSE, n |-> [n EXCEPT !.state = "WAITING"]]

\* later polls of a Notified future
poll_waiting(n) ==
    IF n.notification
    THEN [ready |-> TRUE, n |-> [n EXCEPT !.notification = FALSE]]
    ELSE [ready |-> FALSE, n |-> n]

\* Drop of a Notified future that is in its Waiting state
drop_notified(n) ==
    IF n.notification
    THEN [state |-> "NOTIFIED", notification |-> FALSE]
    ELSE [state |-> "EMPTY", notification |-> FALSE]

\* ------------------------------------------------------------- dlog-proof
\* The group of k256 is modelled by a group of prime order Order: a point is
\* named by its discrete logarithm to the generator (identity = 0), a scalar
\* is an integer modulo Order.  SHA-256 is modelled by a digest function into
\* 0 .. DigestSpace-1 that separates the session and participant identifiers
\* as a collision-free hash does; a digest is a valid scalar representation
\* only below Order.
Order == 7
DigestSpace == 8

Scalars == 0..(Order - 1)
Sids == {"sid1", "sid2"}
Pids == {1, 2}

GENERATOR == 1

\* ProjectivePoint * Scalar, ProjectivePoint + ProjectivePoint, Scalar ops
PointMul(pt, k) == (pt * k) % Order
PointAdd(p1, p2) == (p1 + p2) % Order
ScalarAdd(a, b) == (a + b) % Order
ScalarMul(a, b) == (a * b) % Order

\* bytes fed to the hasher for the session identifier
SidBytes(sid) == IF sid = "sid1" THEN 0 ELSE 1

\* hasher.update(sid); hasher.update(pid.to_be_bytes()); every point.to_bytes()
Sha256(sid, pid, points) ==
    (2 * SidBytes(sid) + (pid - 1)
       + 4 * ((points[1] + points[2] + points[3]) % 2)) % DigestSpace

\* Scalar::from_repr(digest): None when the digest is not below the order
from_repr(digest) == IF digest < Order THEN digest ELSE -1

\* DLogProof::hash_points; -1 stands for the panic of expect()
hash_points(sid, pid, points) == from_repr(Sha256(sid, pid, points))

prove_no_x(r, sid, pid, x, y) ==
    LET t == PointMul(GENERATOR, r)
        c == hash_points(sid, pid, <<GENERATOR, y, t>>)
    IN  IF c = -1 THEN [panic |-> TRUE, t |-> 0, s |-> 0]
        ELSE [panic |-> FALSE, t |-> t, s |-> ScalarAdd(r, c)]

\* DLogProof::prove with the nonce r drawn from the generator
prove(r, sid, pid, x, y) ==
    LET t == PointMul(GENERATOR, r)
        c == hash_points(sid, pid, <<GENERATOR, y, t>>)
    IN  IF c = -1 THEN [panic |-> TRUE, t |-> 0, s |-> 0]
        ELSE [panic |-> FALSE, t |-> t, s |-> ScalarAdd(r, ScalarMul(c, x))]

\* DLogProof::verify
verify(pr, sid, pid, y) ==
    LET c == hash_points(sid, pid, <<GENERATOR, y, pr.t>>)
        lhs == PointMul(GENERATOR, pr.s)
        rhs == PointAdd(pr.t, PointMul(y, c))
    IN  IF c = -1 THEN [panic |-> TRUE, ok |-> FALSE]
        ELSE [panic |-> FALSE, ok |-> (lhs = rhs)]

NoProof == [t |-> 0, s |-> 0]

DlogInit ==
    /\ dpc = "start"
    /\ dsid = "sid1" /\ dpid = 1
    /\ dx = 0 /\ dy = 0
    /\ proof = NoProof
    /\ vsid = "sid1" /\ vpid = 1
    /\ verdict = FALSE

\* let y = ProjectivePoint::GENERATOR * x; DLogProof::prove(&mut rng, sid, pid, x, y)
Prove(r, sid, pid, x) ==
    /\ dpc = "start"
    /\ dsid' = sid /\ dpid' = pid
    /\ dx' = x /\ dy' = PointMul(GENERATOR, x)
    /\ LET pr == prove(r, sid, pid, x, PointMul(GENERATOR, x))
       IN  IF pr.panic
           THEN dpc' = "prove_panicked" /\ proof' = proof
           ELSE dpc' = "proved" /\ proof' = [t |-> pr.t, s |-> pr.s]
    /\ UNCHANGED <<vsid, vpid, verdict>>
    /\ UNCHANGED <<syncVars, srvVars, cliVars>>

\* proof.verify(sid, pid, y)
Verify(sid, pid) ==
    /\ dpc = "proved"
    /\ vsid' = sid /\ vpid' = pid
    /\ LET v == verify(proof, sid, pid, dy)
       IN  IF v.panic
           THEN dpc' = "verify_panicked" /\ verdict' = verdict
           ELSE dpc' = "verified" /\ verdict' = v.ok
    /\ UNCHANGED <<dsid, dpid, dx, dy, proof>>
    /\ UNCHANGED <<syncVars, srvVars, cliVars>>

\* --------------------------------------------------------------- ws-server
MaxMessages == 3

Texts == {"ping", "pong"}

\* the values socket.recv().await can yield
RecvResults ==
    [kind : {"Text"}, data : Texts]
        \cup [kind : {"Binary", "Ping", "Pong", "Close", "None", "Err"}, data : {""}]

on_recv_other_returns(m) ==
    IF m.kind = "Text" THEN "send"
    ELSE "returned"

\* the arms of match socket.recv().await
on_recv(m) ==
    IF m.kind = "Text" THEN "send"
    ELSE IF m.kind \in {"Close", "None"} THEN "returned"
    ELSE IF m.kind = "Err" THEN "returned"
    ELSE "recv"

after_send_break(ok) == IF ok THEN "recv" ELSE "returned"

\* if let Err(err) = socket.send(..).await { error!(..) } else { info!(..) }
after_send(ok) == "recv"

SrvInit ==
    /\ spc = "recv"
    /\ txt = ""
    /\ received = <<>>
    /\ sendCalls = <<>>
    /\ delivered = <<>>

\* socket.recv().await yields m
Recv(m) ==
    /\ spc = "recv"
    /\ Len(received) < MaxMessages
    /\ received' = Append(received, m)
    /\ txt' = IF m.kind = "Text" THEN m.data ELSE ""
    /\ spc' = on_recv(m)
    /\ UNCHANGED <<sendCalls, delivered>>
    /\ UNCHANGED <<syncVars, dlogVars, cliVars>>

\* socket.send(Message::Text(txt)).await returns Ok or Err
Send(ok) ==
    /\ spc = "send"
    /\ sendCalls' = Append(sendCalls, txt)
    /\ delivered' = IF ok THEN Append(delivered, txt) ELSE delivered
    /\ txt' = ""
    /\ spc' = after_send(ok)
    /\ UNCHANGED received
    /\ UNCHANGED <<syncVars, dlogVars, cliVars>>

\* --------------------------------------------------------------- ws-client
\* The browser dispatches open only while the socket is CONNECTING and
\* message only while it is OPEN; a failure of the connection (also of the
\* closing handshake started by close()) sets it CLOSED and dispatches error.
ClientTexts == Texts \cup {""}

\* e.data(): a JsString, or a Blob / ArrayBuffer of a binary message
MessageData ==
    [kind : {"JsString"}, data : ClientTexts]
        \cup [kind : {"Blob", "ArrayBuffer"}, data : {""}]

UNSUPPORTED == "received unsupported message type"

Pending == [state |-> "pending", value |-> ""]

settle_last(p, call) ==
    IF call.fn = "resolve" THEN [state |-> "fulfilled", value |-> call.arg]
    ELSE [state |-> "rejected", value |-> call.arg]

\* resolve.call1 / reject.call1 on the functions of js_sys::Promise::new: the
\* first invocation settles the promise, later ones have no effect
settle(p, call) ==
    IF p.state # "pending" THEN p
    ELSE IF call.fn = "resolve" THEN [state |-> "fulfilled", value |-> call.arg]
    ELSE [state |-> "rejected", value |-> call.arg]

\* ws.close(): starts the closing handshake of a socket that is not closed
close(r) == IF r \in {"CLOSING", "CLOSED"} THEN r ELSE "CLOSING"

\* before the call of ws_ping
CliInit ==
    /\ message = ""
    /\ ready = "UNSENT"
    /\ sent = <<>>
    /\ closeCalls = 0
    /\ calls = <<>>
    /\ promise = Pending
    /\ events = <<>>

\* ws_ping(endpoint, message): js_sys::Promise::new runs the executor, which
\* opens the socket with WebSocket::new and installs the three callbacks
WsPing(m) ==
    /\ ready = "UNSENT"
    /\ ready' = "CONNECTING"
    /\ message' = m
    /\ UNCHANGED <<sent, closeCalls, calls, promise, events>>
    /\ UNCHANGED <<syncVars, dlogVars, srvVars>>

\* onopen_callback: cloned_ws.send_with_str(&cloned_message), reject on Err
OnOpen(sendOk) ==
    /\ ready = "CONNECTING"
    /\ ready' = "OPEN"
    /\ events' = Append(events, [type |-> "open", kind |-> "", data |-> ""])
    /\ IF sendOk
       THEN /\ sent' = Append(sent, message)
            /\ calls' = calls
            /\ promise' = promise
       ELSE /\ sent' = sent
            /\ calls' = Append(calls, [fn |-> "reject", arg |-> "send error"])
            /\ promise' = settle(promise, [fn |-> "reject", arg |-> "send error"])
    /\ UNCHANGED <<message, closeCalls>>
    /\ UNCHANGED <<syncVars, dlogVars, srvVars>>

\* onerror_callback: cloned_ws.close(); reject(e.error())
OnError ==
    /\ ready \in {"CONNECTING", "OPEN", "CLOSING"}
    /\ events' = Append(events, [type |-> "error", kind |-> "", data |-> ""])
    /\ ready' = close("CLOSED")
    /\ closeCalls' = closeCalls + 1
    /\ calls' = Append(calls, [fn |-> "reject", arg |-> "error event"])
    /\ promise' = settle(promise, [fn |-> "reject", arg |-> "error event"])
    /\ UNCHANGED <<message, sent>>
    /\ UNCHANGED <<syncVars, dlogVars, srvVars>>

\* onmessage_callback: cloned_ws.close(); resolve(txt) for a JsString,
\* reject(Error::new("received unsupported message type")) otherwise
OnMessage(d) ==
    /\ ready = "OPEN"
    /\ events' = Append(events, [type |-> "message", kind |-> d.kind, data |-> d.data])
    /\ ready' = close(ready)
    /\ closeCalls' = closeCalls + 1
    /\ LET call == IF d.kind = "JsString"
                   THEN [fn |-> "resolve", arg |-> d.data]
                   ELSE [fn |-> "reject", arg |-> UNSUPPORTED]
       IN  /\ calls' = Append(calls, call)
           /\ promise' = settle(promise, call)
    /\ UNCHANGED <<message, sent>>
    /\ UNCHANGED <<syncVars, dlogVars, srvVars>>

\* the closing handshake started by ws.close() completes
CloseDone ==
    /\ ready = "CLOSING"
    /\ ready' = "CLOSED"
    /\ UNCHANGED <<message, sent, closeCalls, calls, promise, events>>
    /\ UNCHANGED <<syncVars, dlogVars, srvVars>>

\* ---------------------------------------------------------------------- Init
Init ==
    /\ pc = [p \in Procs |-> "idle"]
    /\ unique_id = [p \in Procs |-> None]
    /\ registry = [i \in Ids |-> None]
    /\ lock = None
    /\ party = [p \in Procs |-> None]
    /\ notify = [p \in Procs |-> NotifyNew]
    /\ expired = [p \in Procs |-> FALSE]
    /\ response = [p \in Procs |-> NoResponse]
    /\ firedBy = [p \in Procs |-> {}]
    /\ firedEarly = [p \in Procs |-> FALSE]
    /\ rank = [p \in Procs |-> 0]
    /\ clean = [p \in Procs |-> FALSE]
    /\ alone = [p \in Procs |-> FALSE]
    /\ firedFirst = [p \in Procs |-> FALSE]
    /\ DlogInit
    /\ SrvInit
    /\ CliInit

\* the attempts on identifier i that made their take-or-register step
Arrived(i) == {r \in Procs : unique_id[r] = i /\ rank[r] # 0}

\* ------------------------------------------------------------------- actions
\* a request for identifier i reaches the handler.  Attempts are named in the
\* order in which their requests reach the handler, identifiers in the order
\* of their first use.
Request(p, i) ==
    /\ pc[p] = "idle"
    /\ \A r \in Procs : r < p => pc[r] # "idle"
    /\ \A j \in Ids : j < i => \E r \in Procs : unique_id[r] = j
    /\ pc' = [pc EXCEPT ![p] = "write"]
    /\ unique_id' = [unique_id EXCEPT ![p] = i]
    /\ UNCHANGED <<registry, lock, party, notify, expired, response,
                   firedBy, firedEarly, rank, clean, alone, firedFirst>>
    /\ UNCHANGED nonSyncVars

\* let mut waiting_parties = state.waiting_parties.write().await;
\* if let Some(party) = waiting_parties.take(unique_id) { .. }
\* else { let party = waiting_parties.insert(unique_id); .. }
TakeOrInsert(p) ==
    /\ pc[p] = "write"
    /\ lock = None
    /\ lock' = p
    /\ LET t == take(registry, unique_id[p])
           n == insert(t.map, unique_id[p], p)
       IN  IF t.ret # None
           THEN /\ registry' = t.map
                /\ party' = [party EXCEPT ![p] = t.ret]
                /\ notify' = notify
                /\ pc' = [pc EXCEPT ![p] = "notify"]
           ELSE /\ registry' = n.map
                /\ party' = [party EXCEPT ![p] = n.ret]
                /\ notify' = [notify EXCEPT ![p] = NotifyNew]
                /\ pc' = [pc EXCEPT ![p] = "drop"]
    /\ rank' = [rank EXCEPT ![p] = Cardinality(Arrived(unique_id[p])) + 1]
    /\ clean' = [clean EXCEPT ![p] =
                    \A r \in Procs : unique_id[r] = unique_id[p] => ~expired[r]]
    /\ UNCHANGED <<unique_id, expired, response, firedBy, firedEarly, alone, firedFirst>>
    /\ UNCHANGED nonSyncVars

\* party.notify_one()
NotifyOne(p) ==
    /\ pc[p] = "notify"
    /\ notify' = [notify EXCEPT ![party[p]] = notify_one(@)]
    /\ firedBy' = [firedBy EXCEPT ![party[p]] = @ \cup {p}]
    /\ firedEarly' = [firedEarly EXCEPT ![party[p]] = @ \/ pc[party[p]] = "timeout"]
    /\ firedFirst' = [firedFirst EXCEPT ![party[p]] = @ \/ ~expired[party[p]]]
    /\ pc' = [pc EXCEPT ![p] = "outbound"]
    /\ UNCHANGED <<unique_id, registry, lock, party, expired, response,
                   rank, clean, alone>>
    /\ UNCHANGED nonSyncVars

\* (StatusCode::OK, OUTBOUND_MESSAGE); the guard is dropped on return
RespondOutbound(p) ==
    /\ pc[p] = "outbound"
    /\ response' = [response EXCEPT ![p] = [status |-> OK, body |-> OUTBOUND_MESSAGE]]
    /\ lock' = None
    /\ pc' = [pc EXCEPT ![p] = "done"]
    /\ UNCHANGED <<unique_id, registry, party, notify, expired, firedBy,
                   firedEarly, rank, clean, alone, firedFirst>>
    /\ UNCHANGED nonSyncVars

DropGuard_keep(p) ==
    /\ pc[p] = "drop"
    /\ pc' = [pc EXCEPT ![p] = "timeout"]
    /\ UNCHANGED <<unique_id, registry, lock, party, notify, expired, response,
                   firedBy, firedEarly, rank, clean, alone, firedFirst>>
    /\ UNCHANGED nonSyncVars

\* drop(waiting_parties); timeout(state.wait_timeout, party.notified())
DropGuard(p) ==
    /\ pc[p] = "drop"
    /\ lock' = None
    /\ pc' = [pc EXCEPT ![p] = "timeout"]
    /\ UNCHANGED <<unique_id, registry, party, notify, expired, response,
                   firedBy, firedEarly, rank, clean, alone, firedFirst>>
    /\ UNCHANGED nonSyncVars

\* the timer of the attempt's timeout elapses
TimerElapse(p) ==
    /\ pc[p] \in {"timeout", "delay", "suspended"}
    /\ ~expired[p]
    /\ expired' = [expired EXCEPT ![p] = TRUE]
    /\ alone' = [alone EXCEPT ![p] = Arrived(unique_id[p]) = {p}]
    /\ UNCHANGED <<pc, unique_id, registry, lock, party, notify, response,
                   firedBy, firedEarly, rank, clean, firedFirst>>
    /\ UNCHANGED nonSyncVars

\* Timeout::poll, first half: poll party.notified();
\* Ready gives Ok(_) => (StatusCode::OK, INBOUND_MESSAGE)
PollNotified(p) ==
    /\ \/ pc[p] = "timeout"
       \/ pc[p] = "suspended" /\ (notify[p].notification \/ expired[p])
    /\ LET r == IF pc[p] = "timeout" THEN poll_init(notify[p])
                ELSE poll_waiting(notify[p])
       IN  /\ notify' = [notify EXCEPT ![p] = r.n]
           /\ IF r.ready
              THEN /\ response' = [response EXCEPT ![p] =
                                      [status |-> OK, body |-> INBOUND_MESSAGE]]
                   /\ pc' = [pc EXCEPT ![p] = "done"]
              ELSE /\ response' = response
                   /\ pc' = [pc EXCEPT ![p] = "delay"]
    /\ UNCHANGED <<unique_id, registry, lock, party, expired,
                   firedBy, firedEarly, rank, clean, alone, firedFirst>>
    /\ UNCHANGED nonSyncVars

PollDelay_ok(p) ==
    /\ pc[p] = "delay"
    /\ IF expired[p]
       THEN /\ notify' = [notify EXCEPT ![p] = drop_notified(@)]
            /\ response' = [response EXCEPT ![p] =
                               [status |-> OK, body |-> INBOUND_MESSAGE]]
            /\ pc' = [pc EXCEPT ![p] = "done"]
       ELSE /\ notify' = notify
            /\ response' = response
            /\ pc' = [pc EXCEPT ![p] = "suspended"]
    /\ UNCHANGED <<unique_id, registry, lock, party, expired,
                   firedBy, firedEarly, rank, clean, alone, firedFirst>>
    /\ UNCHANGED nonSyncVars

\* Timeout::poll, second half: poll the Sleep; Ready gives Err(Elapsed) and
\* the Notified future is dropped, Pending suspends the task
PollDelay(p) ==
    /\ pc[p] = "delay"
    /\ IF expired[p]
       THEN /\ notify' = [notify EXCEPT ![p] = drop_notified(@)]
            /\ pc' = [pc EXCEPT ![p] = "elapsed"]
       ELSE /\ notify' = notify
            /\ pc' = [pc EXCEPT ![p] = "suspended"]
    /\ response' = response
    /\ UNCHANGED <<unique_id, registry, lock, party, expired,
                   firedBy, firedEarly, rank, clean, alone, firedFirst>>
    /\ UNCHANGED nonSyncVars

\* Err(_) => state.waiting_parties.write().await.remove(unique_id);
\* the temporary guard is dropped at the end of the statement
Remove(p) ==
    /\ pc[p] = "elapsed"
    /\ lock = None
    /\ registry' = remove(registry, unique_id[p])
    /\ lock' = None
    /\ pc' = [pc EXCEPT ![p] = "request_timeout"]
    /\ UNCHANGED <<unique_id, party, notify, expired, response, firedBy,
                   firedEarly, rank, clean, alone, firedFirst>>
    /\ UNCHANGED nonSyncVars

\* (StatusCode::REQUEST_TIMEOUT, TIMEOUT_MESSAGE)
RespondTimeout(p) ==
    /\ pc[p] = "request_timeout"
    /\ response' = [response EXCEPT ![p] =
                        [status |-> REQUEST_TIMEOUT, body |-> TIMEOUT_MESSAGE]]
    /\ pc' = [pc EXCEPT ![p] = "done"]
    /\ UNCHANGED <<unique_id, registry, lock, party, notify, expired, firedBy,
                   firedEarly, rank, clean, alone, firedFirst>>
    /\ UNCHANGED nonSyncVars

\* the steps of sync_parties after the request has arrived
Step(p) ==
    \/ TakeOrInsert(p)
    \/ NotifyOne(p)
    \/ RespondOutbound(p)
    \/ DropGuard(p)
    \/ PollNotified(p)
    \/ PollDelay(p)
    \/ Remove(p)
    \/ RespondTimeout(p)

Next ==
    \/ \E p \in Procs, i \in Ids : Request(p, i)
    \/ \E p \in Procs : Step(p)
    \/ \E p \in Procs : TimerElapse(p)

Spec == Init /\ [][Next]_vars

\* the runtime keeps running a task that can run and timers elapse: a step
\* of some attempt that stays possible is eventually taken
FairSpec ==
    /\ Spec
    /\ WF_vars(\E p \in Procs : Step(p) \/ TimerElapse(p))

DlogNext ==
    \/ \E r \in Scalars, sid \in Sids, pid \in Pids, x \in Scalars :
           Prove(r, sid, pid, x)
    \/ \E sid \in Sids, pid \in Pids : Verify(sid, pid)

DlogSpec == Init /\ [][DlogNext]_vars

SrvNext ==
    \/ \E m \in RecvResults : Recv(m)
    \/ \E ok \in BOOLEAN : Send(ok)

SrvSpec == Init /\ [][SrvNext]_vars

\* the texts among the messages received, in order
RECURSIVE TextData(_)
TextData(ms) ==
    IF ms = <<>> THEN <<>>
    ELSE IF ms[1].kind = "Text" THEN <<ms[1].data>> \o TextData(Tail(ms))
    ELSE TextData(Tail(ms))

CliNext ==
    \/ \E m \in ClientTexts : WsPing(m)
    \/ \E ok \in BOOLEAN : OnOpen(ok)
    \/ \E d \in MessageData : OnMessage(d)
    \/ OnError
    \/ CloseDone

CliSpec == Init /\ [][CliNext]_vars

\* ----------------------------------------------------------------- outcomes
MatchedAsSecond(p) == response[p] = [status |-> OK, body |-> OUTBOUND_MESSAGE]
MatchedAsFirst(p) == response[p] = [status |-> OK, body |-> INBOUND_MESSAGE]
TimedOut(p) == response[p] = [status |-> REQUEST_TIMEOUT, body |-> TIMEOUT_MESSAGE]

\* the attempts that use identifier i
Attempts(i) == {r \in Procs : unique_id[r] = i}

\* every request of the run has reached the handler
AllRequested == \A r \in Procs : pc[r] # "idle"

\* handle h has been taken out of the registry by another attempt
Taken(h) == \E q \in Procs \ {h} : party[q] = h

\* attempt p is blocked on the registry lock
Blocked(p) == pc[p] \in {"write", "elapsed"} /\ lock # None

\* ================================================================== claims

\* C1: when exactly two attempts use an identifier and the second makes its
\* take-or-register step before the timer of the first has elapsed, the first
\* returns MatchedAsFirst and the second MatchedAsSecond.
C1_TwoAttemptsMatch ==
    \A p, q \in Procs :
        ( /\ p # q
          /\ AllRequested
          /\ Attempts(unique_id[p]) = {p, q}
          /\ rank[p] = 1 /\ rank[q] = 2 /\ clean[q]
          /\ pc[p] = "done" /\ pc[q] = "done" )
        => MatchedAsFirst(p) /\ MatchedAsSecond(q)

\* C2: an attempt that found a Waiter's entry, fired it and returned
\* MatchedAsSecond never leaves that Waiter with the TimedOut outcome.
C2_MatcherImpliesMatchedWaiter ==
    \A q, h \in Procs :
        (q \in firedBy[h] /\ MatchedAsSecond(q)) => ~TimedOut(h)

\* C3: a handle fired before its Waiter's first poll of notified() still
\* resolves the wait as Matched: the Waiter goes straight from its first poll
\* to MatchedAsFirst and never to the timeout path.
C3_NoLostWakeup ==
    \A h \in Procs :
        firedEarly[h] =>
            /\ pc[h] \in {"timeout", "done"}
            /\ pc[h] = "done" => MatchedAsFirst(h)

C3_Witness ==
    \E h \in Procs : firedEarly[h] /\ expired[h] /\ MatchedAsFirst(h)

\* C4 as stated: at the step in which an attempt returns TimedOut the registry
\* has no entry for the attempt's identifier.
C4_NoEntryAtReturn ==
    [][\A p \in Procs :
          (pc[p] = "request_timeout" /\ pc'[p] = "done")
              => registry'[unique_id[p]] = None]_vars

\* C4 as amended: when an attempt returns TimedOut, and ever after, the
\* registry does not hold the entry this attempt registered; an entry found
\* under its identifier belongs to an attempt that arrived later.
C4_LeakFree ==
    \A p \in Procs :
        pc[p] = "request_timeout" \/ TimedOut(p) =>
            \/ registry[unique_id[p]] = None
            \/ /\ registry[unique_id[p]] # p
               /\ rank[registry[unique_id[p]]] > rank[p]

C4_Witness ==
    \E p \in Procs : TimedOut(p) /\ registry[unique_id[p]] \notin {None, p}

\* C5: every handle is fired by at most one attempt and taken by at most one
\* attempt, and an attempt that returned MatchedAsSecond took and fired
\* exactly one handle, which is not its own.
C5_SingleMatcher ==
    /\ \A h \in Procs :
          /\ Cardinality(firedBy[h]) <= 1
          /\ Cardinality({q \in Procs \ {h} : party[q] = h}) <= 1
          /\ firedBy[h] \subseteq {q \in Procs \ {h} : party[q] = h}
    /\ \A q \in Procs :
          MatchedAsSecond(q) =>
              /\ party[q] \notin {None, q}
              /\ {h \in Procs : q \in firedBy[h]} = {party[q]}

C5_Witness ==
    \E q \in Procs :
        /\ MatchedAsSecond(q)
        /\ Cardinality(Arrived(unique_id[q])) = 3

\* C6: the registry holds an entry for an identifier exactly while one party
\* waits on it: a Waiter whose handle was not taken and whose timer has not
\* elapsed has its own handle stored under its identifier, and a stored
\* handle belongs to a Waiter that was not taken and has not cleaned up.
C6_RegistryInvariant ==
    /\ \A p \in Procs :
          ( /\ pc[p] \in {"drop", "timeout", "delay", "suspended"}
            /\ ~Taken(p)
            /\ ~expired[p] )
          => registry[unique_id[p]] = p
    /\ \A i \in Ids :
          registry[i] # None =>
              /\ pc[registry[i]] \in {"drop", "timeout", "delay", "suspended", "elapsed"}
              /\ ~Taken(registry[i])

\* C7: under fair scheduling every attempt that reached the handler returns
\* (from some point on every attempt has either never been requested or has
\* returned), with exactly one of the three outcomes, and an outcome once
\* produced never changes.
C7_Terminates ==
    /\ <>[](\A p \in Procs : pc[p] \in {"idle", "done"})
    /\ [](\A p \in Procs :
            /\ pc[p] = "done" <=>
                  (MatchedAsSecond(p) \/ MatchedAsFirst(p) \/ TimedOut(p))
            /\ pc[p] # "done" => response[p] = NoResponse)
    /\ [][\A p \in Procs :
            response[p] # NoResponse => response'[p] = response[p]]_vars

C7_Witness ==
    /\ \A p \in Procs : pc[p] = "done"
    /\ \E p, q, r \in Procs :
          MatchedAsFirst(p) /\ MatchedAsSecond(q) /\ TimedOut(r)

\* C8 as stated: no attempt handles a handle of another identifier, and no
\* attempt is made to wait for an attempt on a different identifier.
C8_NeverWaitsForOtherId ==
    /\ \A q \in Procs : party[q] # None => unique_id[party[q]] = unique_id[q]
    /\ \A p \in Procs : Blocked(p) => unique_id[lock] = unique_id[p]

\* C8 as amended: a step of an attempt on identifier A changes the registry
\* only at A and fires, polls or drops only handles registered under A; it
\* takes only a handle registered under A.  (The attempt can still be kept
\* waiting for the registry lock by an attempt on another identifier.)
C8_Independence ==
    [][\A p \in Procs :
          pc'[p] # pc[p] =>
              /\ \A i \in Ids \ {unique_id'[p]} : registry'[i] = registry[i]
              /\ \A h \in Procs :
                    (notify'[h] # notify[h] \/ firedBy'[h] # firedBy[h])
                        => unique_id[h] = unique_id'[p]
              /\ party'[p] # None => unique_id'[party'[p]] = unique_id'[p]]_vars

C8_Witness ==
    \E p, q \in Procs :
        /\ TimedOut(p)
        /\ unique_id[q] \notin {None, unique_id[p]}
        /\ pc[q] = "suspended"
        /\ registry[unique_id[q]] = q

C10_RolesAlternate ==
    \A i \in Ids :
        ( /\ AllRequested
          /\ \A r \in Attempts(i) : rank[r] # 0 /\ clean[r] )
        => \A r \in Attempts(i) :
              /\ rank[r] % 2 = 1 => party[r] = r
              /\ rank[r] % 2 = 0 =>
                    \E w \in Attempts(i) : rank[w] = rank[r] - 1 /\ party[r] = w
              /\ pc[r] = "done" =>
                    /\ rank[r] % 2 = 0 => MatchedAsSecond(r)
                    /\ (rank[r] % 2 = 1 /\ rank[r] < Cardinality(Attempts(i)))
                          => MatchedAsFirst(r)
                    /\ (rank[r] % 2 = 1 /\ rank[r] = Cardinality(Attempts(i)))
                          => TimedOut(r)

\* C11: when every attempt on an identifier has returned, the registry has no
\* entry for the identifier, so no handle with a stored notification is
\* reachable; the next attempt on it registers a fresh handle and waits, and
\* a Waiter is matched only by an attempt that arrived after it.
C11_CleanReuse ==
    /\ [](\A i \in Ids :
            (Attempts(i) # {} /\ \A r \in Attempts(i) : pc[r] = "done")
                => registry[i] = None)
    /\ [][\A p \in Procs :
            (/\ pc[p] = "write" /\ pc'[p] # "write"
             /\ \A r \in Attempts(unique_id[p]) \ {p} : pc[r] = "done")
                => (/\ pc'[p] = "drop"
                    /\ registry'[unique_id[p]] = p
                    /\ notify'[p] = NotifyNew)]_vars
    /\ [](\A p \in Procs :
            MatchedAsFirst(p) =>
                \E q \in firedBy[p] : unique_id[q] = unique_id[p] /\ rank[q] > rank[p])

C11_Witness ==
    \E p \in Procs :
        /\ pc[p] = "timeout" /\ registry[unique_id[p]] = p /\ rank[p] = 3
        /\ notify[p] = NotifyNew
        /\ \E h \in Attempts(unique_id[p]) \ {p} :
              pc[h] = "done" /\ notify[h].state = "NOTIFIED"

\* C12: remove on an identifier without an entry returns the registry
\* unchanged, and a second remove of an identifier changes nothing more.
C12_RemoveIdempotent ==
    \A i \in Ids :
        /\ registry[i] = None => remove(registry, i) = registry
        /\ remove(remove(registry, i), i) = remove(registry, i)
        /\ remove(registry, i)[i] = None

C12_Witness ==
    \E p \in Procs, j \in Ids :
        /\ pc[p] = "request_timeout" /\ Taken(p)
        /\ registry[unique_id[p]] = None
        /\ j # unique_id[p] /\ registry[j] # None

\* C15: the timeout cleanup of an attempt whose entry was already taken leaves
\* the registry unchanged, and an entry leaves the registry only when a
\* Matcher takes it or when the Waiter that registered it cleans up.
C15_CleanupOwnEntryOnly ==
    [][/\ \A p \in Procs :
            (/\ pc[p] = "elapsed" /\ pc'[p] = "request_timeout"
             /\ registry[unique_id[p]] # p)
                => registry' = registry
       /\ \A i \in Ids :
            (registry[i] # None /\ registry'[i] # registry[i])
                => \/ \E q \in Procs \ {registry[i]} :
                         pc[q] = "write" /\ party'[q] = registry[i]
                   \/ pc[registry[i]] = "elapsed"
                        /\ pc'[registry[i]] = "request_timeout"]_vars

\* C16: the write lock is held only between the take-or-register step and the
\* release that ends it, never by an attempt that is in its wait; an attempt
\* that took a handle is only ever firing it or returning.
C16_NoLockWhileSuspended ==
    /\ lock # None => pc[lock] \in {"notify", "outbound", "drop"}
    /\ \A p \in Procs : pc[p] \in {"timeout", "delay", "suspended", "elapsed"} => lock # p
    /\ \A p \in Procs :
          (party[p] # None /\ party[p] # p) => pc[p] \in {"notify", "outbound", "done"}

C16_Witness ==
    \E m \in Procs, w1 \in Procs, w2 \in Procs :
        /\ w1 # w2
        /\ pc[w1] = "suspended" /\ pc[w2] = "suspended"
        /\ lock = m /\ party[m] = w1 /\ pc[m] = "notify"

\* C17: a Waiter whose handle was fired before its timer elapsed returns
\* MatchedAsFirst, and a Waiter whose timer elapsed before any fire returns
\* TimedOut.
C17_FirstEventDecides ==
    \A p \in Procs :
        (pc[p] = "done" /\ party[p] = p) =>
            /\ firedFirst[p] => MatchedAsFirst(p)
            /\ (expired[p] /\ ~firedFirst[p]) => TimedOut(p)

\* C13: a proof returned by prove for (sid, pid, x, y = x*G) makes verify for
\* the same sid, pid and y return true.
C13_Completeness ==
    (dpc \in {"verified", "verify_panicked"} /\ vsid = dsid /\ vpid = dpid)
        => (dpc = "verified" /\ verdict = TRUE)

C13_Witness ==
    /\ dpc = "verified" /\ vsid = dsid /\ vpid = dpid
    /\ dx # 0 /\ proof.s # proof.t /\ verdict = TRUE

\* C14: a proof made for (sid, pid, x, y = x*G) is rejected by verify for the
\* same y with another session identifier or another participant identifier,
\* whatever x is, 0 included.
C14_BoundToSession ==
    (dpc = "verified" /\ (vsid # dsid \/ vpid # dpid)) => verdict = FALSE

C19_ReturnsOnlyOnClose ==
    spc = "returned" <=>
        (received # <<>> /\ received[Len(received)].kind \in {"Close", "None", "Err"})

C19_Witness ==
    /\ spc = "returned"
    /\ Len(delivered) < Len(sendCalls)

\* C20 as stated: resolve and reject are invoked at most once in total.
C20_AtMostOneCall == Len(calls) <= 1

\* C20 as amended: the promise is settled by the first invocation of resolve
\* or reject and by no later one; resolve is invoked only with the text of a
\* text message that was received; once a message or an error event has been
\* handled, close() has been called and the socket is closing or closed.
C20_SettledOnce ==
    /\ promise.state = "pending" <=> calls = <<>>
    /\ calls # <<>> =>
          /\ promise.value = calls[1].arg
          /\ promise.state = IF calls[1].fn = "resolve" THEN "fulfilled" ELSE "rejected"
    /\ \A k \in 1..Len(calls) :
          calls[k].fn = "resolve" =>
              \E j \in 1..Len(events) :
                  events[j] = [type |-> "message", kind |-> "JsString", data |-> calls[k].arg]
    /\ (\E j \in 1..Len(events) : events[j].type \in {"message", "error"})
          => (closeCalls >= 1 /\ ready \in {"CLOSING", "CLOSED"})

C20_Witness ==
    /\ Len(calls) = 2
    /\ calls[1].fn = "resolve" /\ calls[2].fn = "reject"
    /\ promise.state = "fulfilled"

\* C21: hash_points never fails: the digest is always below the group order,
\* so from_repr succeeds and no call of prove or verify ends in the panic of
\* expect.
C21_HashPointsNeverFails ==
    dpc \notin {"prove_panicked", "verify_panicked"}
====
